---- MODULE Spec2Model ----
\* A model of pandevice's Panorama.refresh_devices / Panorama.commit_all
\* (src/pandevice/panorama.py) and of network.Interface (src/pandevice/network.py).
EXTENDS Integers, Sequences, FiniteSets, TLC

VARIABLES
    devicesAll,   \* remote: the device inventory answered by "show devices all"
    dgConfig,     \* remote: the device-group subtree of the configuration
    dgOp,         \* remote: the answer of "show devicegroups"
    tree,         \* the Panorama object's children (the live configuration tree)
    lastArgs,     \* arguments of the last refresh_devices call, None before any
    result,       \* outcome of the last refresh_devices call: [err, value]
    calls,        \* number of refresh_devices calls made
    commits,      \* the commit requests handed to PanDevice._commit, in order
    lastCommit,   \* arguments of the last commit_all call, None before any
    iface,        \* the Interface object, <<>> before it is constructed
    xapiLog,      \* the remote configuration calls issued, in order
    config_changed, \* the device's "configuration changed" mark
    ifcOps,       \* number of Interface operations started
    ifcErr        \* the error the last Interface operation raised, or None

refreshVars == <<devicesAll, dgConfig, dgOp, tree, lastArgs, result, calls>>
commitVars == <<commits, lastCommit>>
ifaceVars == <<iface, xapiLog, config_changed, ifcOps, ifcErr>>
vars == <<refreshVars, commitVars, ifaceVars>>

\* ---------------------------------------------------------------- bounds
MaxRequested == 2   \* longest `devices` argument
MaxCalls == 2       \* refresh_devices calls per behaviour
MaxSerials == 2     \* longest `serials` argument of commit_all
MaxCommits == 1     \* commit_all calls per behaviour
MaxOps == 3         \* Interface operations per behaviour, the constructor included
MaxSlotDigits == 2  \* digits of the slot number in a generated interface name
MaxPortDigits == 4  \* digits of the port number in a generated interface name
MaxUnitDigits == 5  \* digits of the unit number in a generated interface name

\* ---------------------------------------------------------------- values
None == "None"

S1 == "S1"
S2 == "S2"
V1 == [name |-> "vsys1", display |-> "alpha"]
V2 == [name |-> "vsys2", display |-> "beta"]

\* ---------------------------------------------------------------- helpers
RECURSIVE Flatten(_)
Flatten(ss) == IF ss = <<>> THEN <<>> ELSE Head(ss) \o Flatten(Tail(ss))

\* The least index of the set I, 0 when it is empty (ElementTree's find(),
\* Python's next(...) over a generator: the first match).
FirstIndex(I) ==
    IF I = {} THEN 0 ELSE CHOOSE i \in I : \A j \in I : i <= j

RemoveAt(s, i) == SubSeq(s, 1, i - 1) \o SubSeq(s, i + 1, Len(s))

SeqsUpTo(S, n) == UNION {[1..k -> S] : k \in 0..n}

\* ---------------------------------------------------------------- tree nodes
\* Every node of the object tree has the same fields; the ones a kind does
\* not use are None.
Node(kind, name, vsys, vsys_name, connected, synced, children) ==
    [kind |-> kind, name |-> name, vsys |-> vsys, vsys_name |-> vsys_name,
     connected |-> connected, synced |-> synced, children |-> children]

Other(name) == Node("Other", name, None, None, None, None, <<>>)
Vsys(name) == Node("Vsys", name, None, None, None, None, <<>>)
DeviceGroup(name, children) ==
    Node("DeviceGroup", name, None, None, None, None, children)

\* self.FIREWALL_CLASS(serial=dg_serial, vsys=dg_vsys): serial and vsys only.
Firewall(serial, vsys) ==
    Node("Firewall", serial, vsys, None, None, None, <<>>)

\* PanObject.removeall(cls) for cls = Firewall
removeall(children) == SelectSeq(children, LAMBDA c : c.kind # "Firewall")

\* PanObject.find(name, DeviceGroup): index among the direct children
find(children, name) ==
    FirstIndex({ix \in 1..Len(children) : children[ix].kind = "DeviceGroup" /\ children[ix].name = name})

\* ---------------------------------------------------------------- requested devices
\* The `devices` argument holds serial strings or Firewall objects.
StrDevice(serial) == [kind |-> "str", serial |-> serial, vsys |-> None]
FwDevice(serial, vsys) == [kind |-> "fw", serial |-> serial, vsys |-> vsys]

\* str(device): the string itself, or the Firewall's serial
Str(device) == device.serial

\* device.vsys raises AttributeError on a plain string
HasVsysAttr(device) == device.kind = "fw"

SpecificVsys(vsys) == vsys # "shared" /\ vsys # None

\* ---------------------------------------------------------------- show devices
show_devices(all, only_connected) ==
    IF only_connected
    THEN SelectSeq(all, LAMBDA e : e.connected = "yes")
    ELSE all

FindEntry(xml, serial) == FirstIndex({ix \in 1..Len(xml) : xml[ix].serial = serial})

MissingSerialError(only_connected) ==
    IF only_connected THEN "PanNotConnectedOnPanorama"
    ELSE "PanNotAttachedOnPanorama"

MissingVsysError(only_connected) == "PanNotAttachedOnPanorama"

\* The loop of lines 261-294 over the requested devices; acc = [err, xml].
RECURSIVE FilterDevices(_, _, _, _)
FilterDevices(devices, devices_xml, only_connected, acc) ==
    IF devices = <<>> \/ acc.err # None THEN acc
    ELSE
      LET device == Head(devices)
          serial == Str(device)
          i == FindEntry(devices_xml, serial)
      IN
      IF i = 0 THEN [acc EXCEPT !.err = MissingSerialError(only_connected)]
      ELSE IF ~HasVsysAttr(device)
      THEN FilterDevices(Tail(devices), devices_xml, only_connected, acc)
      ELSE
        LET entry == devices_xml[i]
            specific == SpecificVsys(device.vsys)
            withEntry ==
                IF FindEntry(acc.xml, serial) = 0
                THEN Append(acc.xml,
                            IF specific THEN [entry EXCEPT !.vsys = <<>>]
                            ELSE entry)
                ELSE acc.xml
        IN
        IF ~specific
        THEN FilterDevices(Tail(devices), devices_xml, only_connected,
                           [acc EXCEPT !.xml = withEntry])
        ELSE
          LET k == FirstIndex({ix \in 1..Len(entry.vsys) : entry.vsys[ix].name = device.vsys})
              j == FindEntry(withEntry, serial)
          IN
          IF k = 0 THEN [acc EXCEPT !.err = MissingVsysError(only_connected)]
          ELSE FilterDevices(Tail(devices), devices_xml, only_connected,
                 [acc EXCEPT !.xml =
                    [withEntry EXCEPT ![j].vsys = Append(@, entry.vsys[k])]])

\* Lines 259-295: the filtered operational view, or the error raised.
FilteredDevices(devices, devices_xml, only_connected) ==
    IF devices = <<>> THEN [err |-> None, xml |-> devices_xml]
    ELSE FilterDevices(devices, devices_xml, only_connected,
                       [err |-> None, xml |-> <<>>])

\* ---------------------------------------------------------------- expand_vsys
\* Lines 303-308: one copy of the entry per declared vsys.
ExpandEntry(entry) ==
    [k \in 1..Len(entry.vsys) |->
        [entry EXCEPT !.vsys_id = entry.vsys[k].name,
                      !.vsys_name = entry.vsys[k].display]]

ExpandVsys(devices_xml) ==
    Flatten([i \in 1..Len(devices_xml) |-> ExpandEntry(devices_xml[i])])

DefaultVsys == "vsys1"

\* Firewall.refreshall_from_xml: one Firewall per entry of the device list.
FirewallFromEntry(entry, refresh_children) ==
    Node("Firewall", entry.serial,
         IF entry.vsys_id = None THEN DefaultVsys ELSE entry.vsys_id,
         entry.vsys_name, entry.connected, None,
         IF refresh_children
         THEN [k \in 1..Len(entry.vsys) |-> Vsys(entry.vsys[k].name)]
         ELSE <<>>)

refreshall_from_xml(devices_xml, refresh_children) ==
    [i \in 1..Len(devices_xml) |->
        FirewallFromEntry(devices_xml[i], refresh_children)]

\* ---------------------------------------------------------------- device-groups
\* A device entry of a device-group, in the configuration or the operational
\* view: [serial, status, vsys], vsys a sequence of [name, status].
Member(serial, status, vsys) ==
    [serial |-> serial, status |-> status, vsys |-> vsys]

VsysRef(name, status) == [name |-> name, status |-> status]

\* devicegroup_opxml.find("entry/devices/entry[@name='%s']"): the first device
\* entry of that name in document order, whichever group it is under
\* (<<>> when find() returns None).
FindOpEntry(opxml, serial) ==
    LET all == Flatten([g \in 1..Len(opxml) |-> opxml[g].devices])
        i == FirstIndex({ix \in 1..Len(all) : all[ix].serial = serial})
    IN IF i = 0 THEN <<>> ELSE <<all[i]>>

\* pandevice.xml_combine(fw_entry, fw_entry_op): the status fields of the
\* operational entry joined into the configuration entry, by vsys name.
xml_combine(fw_entry, fw_entry_op) ==
    [fw_entry EXCEPT
       !.status = IF @ = None THEN fw_entry_op.status ELSE @,
       !.vsys = [k \in 1..Len(fw_entry.vsys) |->
                   LET i == FirstIndex({ix \in 1..Len(fw_entry_op.vsys) : fw_entry_op.vsys[ix].name = fw_entry.vsys[k].name})
                   IN IF i = 0 \/ fw_entry.vsys[k].status # None
                      THEN fw_entry.vsys[k]
                      ELSE [fw_entry.vsys[k] EXCEPT
                              !.status = fw_entry_op.vsys[i].status]]]

\* Lines 334-341.
CombinedConfig(configxml, opxml) ==
    [g \in 1..Len(configxml) |->
        IF ~configxml[g].hasDevices THEN configxml[g]
        ELSE [configxml[g] EXCEPT !.devices =
                [d \in 1..Len(configxml[g].devices) |->
                    LET fw_entry == configxml[g].devices[d]
                        fw_entry_op == FindOpEntry(opxml, fw_entry.serial)
                    IN IF fw_entry_op = <<>> THEN fw_entry
                       ELSE xml_combine(fw_entry, fw_entry_op[1])]]]

\* Line 353: skip devices not requested.
SkipSerial(devices, dg_serial) ==
    devices # <<>> /\ \A i \in 1..Len(devices) : Str(devices[i]) # dg_serial

\* Lines 364-373: skip a vsys that was not requested.
SkipVsys(devices, dg_vsys) ==
    /\ devices # <<>>
    /\ \A i \in 1..Len(devices) : HasVsysAttr(devices[i])
    /\ \A i \in 1..Len(devices) :
          devices[i].vsys \notin {"shared", None, dg_vsys}

\* Lines 385-387: the status text read from the (combined) configuration entry.
SharedPolicyStatus(fw_entry, dg_vsys) ==
    IF fw_entry.status # None THEN fw_entry.status
    ELSE LET i == FirstIndex({ix \in 1..Len(fw_entry.vsys) : fw_entry.vsys[ix].name = dg_vsys})
         IN IF i = 0 THEN None ELSE fw_entry.vsys[i].status

\* Lines 355-373 for one device entry of group g: the (serial, vsys) pairs the
\* inner loop gets to, in order.
MembershipsOfEntry(g, fw_entry, devices) ==
    LET all_dg_vsys ==
            IF fw_entry.vsys = <<>> THEN <<"vsys1">>
            ELSE [k \in 1..Len(fw_entry.vsys) |-> fw_entry.vsys[k].name]
        items == [k \in 1..Len(all_dg_vsys) |->
                    [dg |-> g, serial |-> fw_entry.serial,
                     vsys |-> all_dg_vsys[k],
                     status |-> SharedPolicyStatus(fw_entry, all_dg_vsys[k])]]
    IN IF SkipSerial(devices, fw_entry.serial) THEN <<>>
       ELSE SelectSeq(items, LAMBDA m : ~SkipVsys(devices, m.vsys))

\* Lines 348-373 over all groups.
Memberships(configxml, devices) ==
    Flatten([g \in 1..Len(configxml) |->
        Flatten([d \in 1..Len(configxml[g].devices) |->
            MembershipsOfEntry(g, configxml[g].devices[d], devices)])])

\* FirewallState.set_shared_policy_synced
set_shared_policy_synced(fw, shared_policy_status) ==
    [fw EXCEPT !.synced = shared_policy_status]

\* Mutant: a membership without a device record is dropped.
AttachMember_NoPlaceholder(m, only_connected, acc) ==
    LET i == FirstIndex({ix \in 1..Len(acc.fws) : acc.fws[ix].name = m.serial /\ acc.fws[ix].vsys = m.vsys})
    IN IF i = 0 THEN acc
       ELSE [fws |-> RemoveAt(acc.fws, i),
             kids |-> [acc.kids EXCEPT ![m.dg] =
                 Append(@, set_shared_policy_synced(acc.fws[i], m.status))]]

\* Mutant: the placeholder is made whatever only_connected says.
AttachMember_AlwaysPlaceholder(m, only_connected, acc) ==
    LET i == FirstIndex({ix \in 1..Len(acc.fws) : acc.fws[ix].name = m.serial /\ acc.fws[ix].vsys = m.vsys})
    IN IF i = 0
       THEN [acc EXCEPT !.kids[m.dg] = Append(@, Firewall(m.serial, m.vsys))]
       ELSE [fws |-> RemoveAt(acc.fws, i),
             kids |-> [acc.kids EXCEPT ![m.dg] =
                 Append(@, set_shared_policy_synced(acc.fws[i], m.status))]]

\* Lines 374-388 for one membership; acc = [fws, kids], kids[g] the children
\* added to group g so far.
AttachMember(m, only_connected, acc) ==
    LET i == FirstIndex({ix \in 1..Len(acc.fws) : acc.fws[ix].name = m.serial /\ acc.fws[ix].vsys = m.vsys})
    IN IF i = 0
       THEN IF ~only_connected
            THEN [acc EXCEPT !.kids[m.dg] = Append(@, Firewall(m.serial, m.vsys))]
            ELSE acc
       ELSE [fws |-> RemoveAt(acc.fws, i),
             kids |-> [acc.kids EXCEPT ![m.dg] =
                 Append(@, set_shared_policy_synced(acc.fws[i], m.status))]]

RECURSIVE AttachMembers(_, _, _)
AttachMembers(ms, only_connected, acc) ==
    IF ms = <<>> THEN acc
    ELSE AttachMembers(Tail(ms), only_connected,
                       AttachMember(Head(ms), only_connected, acc))

\* ---------------------------------------------------------------- add=True
\* Mutant: the existing group keeps its old Firewall children.
RECURSIVE AddGroups_Merge(_, _)
AddGroups_Merge(children, dgs) ==
    IF dgs = <<>> THEN children
    ELSE LET dg == Head(dgs)
             i == find(children, dg.name)
         IN AddGroups_Merge(
              IF i # 0
              THEN [children EXCEPT ![i].children = @ \o dg.children]
              ELSE Append(children, dg),
              Tail(dgs))

\* Lines 391-399.
RECURSIVE AddGroups(_, _)
AddGroups(children, dgs) ==
    IF dgs = <<>> THEN children
    ELSE LET dg == Head(dgs)
             i == find(children, dg.name)
         IN AddGroups(
              IF i # 0
              THEN [children EXCEPT
                      ![i].children = removeall(@) \o dg.children]
              ELSE Append(children, dg),
              Tail(dgs))

\* Mutant: the root keeps its old Firewall children.
AddToTree_Merge(children, dgs, fws) == AddGroups(children, dgs) \o fws

\* Lines 390-402.
AddToTree(children, dgs, fws) == removeall(AddGroups(children, dgs)) \o fws

\* ---------------------------------------------------------------- refresh_devices
Args(devices, only_connected, expand_vsys, include_device_groups, add) ==
    [devices |-> devices, only_connected |-> only_connected,
     expand_vsys |-> expand_vsys,
     include_device_groups |-> include_device_groups, add |-> add]

Outcome(err, value, children) ==
    [err |-> err, value |-> value, tree |-> children]

\* The firewall instances of line 312, given the filtered device list.
FirewallInstances(devices_xml, expand_vsys) ==
    refreshall_from_xml(
        IF expand_vsys THEN ExpandVsys(devices_xml) ELSE devices_xml,
        ~expand_vsys)

\* The device-group instances and what is left of firewall_instances after
\* lines 321-388.
Grouped(firewall_instances, configxml, opxml, a) ==
    LET cfg == CombinedConfig(configxml, opxml)
        acc == AttachMembers(Memberships(cfg, a.devices), a.only_connected,
                   [fws |-> firewall_instances,
                    kids |-> [g \in 1..Len(cfg) |-> <<>>]])
    IN [fws |-> acc.fws,
        dgs |-> [g \in 1..Len(cfg) |-> DeviceGroup(cfg[g].name, acc.kids[g])]]

refresh_devices(children, all, configxml, opxml, a) ==
    LET f == FilteredDevices(a.devices, show_devices(all, a.only_connected),
                             a.only_connected)
    IN
    IF f.err # None THEN Outcome(f.err, <<>>, children)
    ELSE
      LET firewall_instances == FirewallInstances(f.xml, a.expand_vsys)
      IN
      IF ~a.include_device_groups
      THEN Outcome(None, firewall_instances,
                   IF a.add THEN removeall(children) \o firewall_instances
                   ELSE children)
      ELSE
        LET r == Grouped(firewall_instances, configxml, opxml, a)
        IN Outcome(None, r.fws \o r.dgs,
                   IF a.add THEN AddToTree(children, r.dgs, r.fws)
                   ELSE children)

\* ---------------------------------------------------------------- remote state
Entry(serial, connected, vsys) ==
    [serial |-> serial, connected |-> connected, vsys |-> vsys,
     vsys_id |-> None, vsys_name |-> None]

\* S1 is a multi-vsys firewall (missing, or with one or two vsys), S2 a
\* single-context one (connected or not).
S1Entries == {<<>>, <<Entry(S1, "yes", <<V1>>)>>, <<Entry(S1, "yes", <<V1, V2>>)>>}
S2Entries == {<<Entry(S2, "yes", <<V1>>)>>, <<Entry(S2, "no", <<V1>>)>>}
Inventories == {a \o b : a \in S1Entries, b \in S2Entries}

Declared(serial, names) ==
    Member(serial, None, [k \in 1..Len(names) |-> VsysRef(names[k], None)])

Group(name, hasDevices, devices) ==
    [name |-> name, hasDevices |-> hasDevices, devices |-> devices]

DG1Configs ==
    {Group("DG1", FALSE, <<>>)} \cup
    {Group("DG1", TRUE, d) : d \in
        {<<Declared(S1, <<"vsys1">>)>>,
         <<Declared(S1, <<"vsys1">>), Declared(S2, <<>>)>>,
         <<Declared(S1, <<"vsys1", "vsys2">>)>>}}
DG2Configs ==
    {<<>>} \cup
    {<<Group("DG2", TRUE, d)>> : d \in
        {<<Declared(S1, <<"vsys2">>)>>, <<Declared(S2, <<>>)>>}}

\* The (serial, vsys) pairs a configuration group declares; a device entry
\* without vsys entries stands for vsys1.
PairsOf(group) ==
    UNION {IF group.devices[d].vsys = <<>>
           THEN {<<group.devices[d].serial, "vsys1">>}
           ELSE {<<group.devices[d].serial, group.devices[d].vsys[k].name>> :
                    k \in 1..Len(group.devices[d].vsys)} :
           d \in 1..Len(group.devices)}

\* Panorama keeps a device (or vsys) in one device-group only.
Configs ==
    {c \in {<<a>> \o b : a \in DG1Configs, b \in DG2Configs} :
        \A g, h \in 1..Len(c) : g # h => PairsOf(c[g]) \cap PairsOf(c[h]) = {}}

\* "show devicegroups" for a configuration whose groups have the given sync
\* status: a single-context device reports it on the device entry, a
\* multi-vsys device on each vsys entry.
ShowDevicegroups(configxml, st) ==
    [g \in 1..Len(configxml) |->
        [name |-> configxml[g].name,
         devices |->
           [d \in 1..Len(configxml[g].devices) |->
              LET m == configxml[g].devices[d]
              IN Member(m.serial,
                        IF m.vsys = <<>> THEN st[g] ELSE None,
                        [k \in 1..Len(m.vsys) |->
                            VsysRef(m.vsys[k].name, st[g])])]]]

\* The two groups are pushed separately and differ in their status: the
\* first group is in sync, the second is not.
OpViews(configxml) ==
    {ShowDevicegroups(configxml, <<"In Sync", "Out of Sync">>)}

\* ---------------------------------------------------------------- callers
OldFirewall == Node("Firewall", "S0", "vsys1", None, "yes", "In Sync", <<>>)
Populated ==
    <<Other("admin"),
      DeviceGroup("DG1", <<OldFirewall, Other("address")>>),
      OldFirewall>>
Trees == {<<>>, Populated}

Requested ==
    {StrDevice(S1), FwDevice(S1, None), FwDevice(S1, "vsys2"), FwDevice(S2, "vsys1")}
DeviceLists == SeqsUpTo(Requested, MaxRequested)

AllArgs ==
    {Args(d, oc, ev, idg, add) :
        d \in DeviceLists, oc \in BOOLEAN, ev \in BOOLEAN,
        idg \in BOOLEAN, add \in BOOLEAN}

NoResult == [err |-> None, value |-> <<>>]

Init ==
    /\ devicesAll \in Inventories
    /\ dgConfig \in Configs
    /\ dgOp \in OpViews(dgConfig)
    /\ tree \in Trees
    /\ lastArgs = None
    /\ result = NoResult
    /\ calls = 0
    /\ commits = <<>>
    /\ lastCommit = None
    /\ iface = <<>>
    /\ xapiLog = <<>>
    /\ config_changed = FALSE
    /\ ifcOps = 0
    /\ ifcErr = None

\* One call of Panorama.refresh_devices; a caller that calls again repeats
\* its arguments.
Refresh(a) ==
    /\ calls < MaxCalls
    /\ IF calls = 0 THEN TRUE ELSE a = lastArgs
    /\ LET r == refresh_devices(tree, devicesAll, dgConfig, dgOp, a)
       IN /\ result' = [err |-> r.err, value |-> r.value]
          /\ tree' = r.tree
    /\ lastArgs' = a
    /\ calls' = calls + 1
    /\ UNCHANGED <<devicesAll, dgConfig, dgOp>>
    /\ UNCHANGED <<commitVars, ifaceVars>>

Next == \E a \in AllArgs : Refresh(a)

Spec == Init /\ [][Next]_vars

\* ---------------------------------------------------------------- commit_all
\* Lines 184-192: the <commit-all> element built when cmd is None. The
\* element holds at most one shared-policy/device-group/entry, which holds a
\* devices element when serials is not empty.
CommitAllElement(devicegroup, serials) ==
    [tag |-> "commit-all",
     device_group |->
        IF devicegroup # None
        THEN <<[name |-> devicegroup,
                hasDevices |-> serials # <<>>,
                devices |-> serials]>>
        ELSE <<>>]

\* Lines 182-197: the command handed on; a command the caller gives is
\* passed through as its XML text.
CommitCmd(devicegroup, serials, cmd) ==
    IF cmd = <<>> THEN CommitAllElement(devicegroup, serials)
    ELSE cmd[1].xml

CommitArgs(sync, sync_all, exception, devicegroup, serials, cmd) ==
    [sync |-> sync, sync_all |-> sync_all, exception |-> exception,
     devicegroup |-> devicegroup, serials |-> serials, cmd |-> cmd]

\* Lines 199-203: self._commit(sync, sync_all, commit_all=True, exception, cmd)
CommitRequest(a) ==
    [sync |-> a.sync, sync_all |-> a.sync_all, commit_all |-> TRUE,
     exception |-> a.exception,
     cmd |-> CommitCmd(a.devicegroup, a.serials, a.cmd)]

\* The cmd argument: absent (<<>>), or a command the caller built, given as a
\* string, a pan.commit.PanCommit or an Element.
GivenCmds ==
    {<<>>} \cup
    {<<[kind |-> k, xml |-> CommitAllElement("DG2", <<S2>>)]>> :
        k \in {"str", "PanCommit", "Element"}}

AllCommitArgs ==
    {CommitArgs(sync, sync_all, exception, dg, serials, cmd) :
        sync \in BOOLEAN, sync_all \in BOOLEAN, exception \in BOOLEAN,
        dg \in {None, "DG1", "DG2"},
        serials \in SeqsUpTo({S1, S2}, MaxSerials),
        cmd \in GivenCmds}

InitCommit ==
    /\ devicesAll = <<>>
    /\ dgConfig = <<>>
    /\ dgOp = <<>>
    /\ tree = <<>>
    /\ lastArgs = None
    /\ result = NoResult
    /\ calls = 0
    /\ commits = <<>>
    /\ lastCommit = None
    /\ iface = <<>>
    /\ xapiLog = <<>>
    /\ config_changed = FALSE
    /\ ifcOps = 0
    /\ ifcErr = None

\* One call of Panorama.commit_all.
CommitAll(a) ==
    /\ Len(commits) < MaxCommits
    /\ commits' = Append(commits, CommitRequest(a))
    /\ lastCommit' = a
    /\ UNCHANGED <<refreshVars, ifaceVars>>

NextCommit == \E a \in AllCommitArgs : CommitAll(a)

SpecCommit == InitCommit /\ [][NextCommit]_vars

\* ---------------------------------------------------------------- network.Interface
\* Names and tags are sequences of characters.
Digits == {"0", "1", "2", "3", "4", "5", "6", "7", "8", "9"}
Ethernet == <<"e", "t", "h", "e", "r", "n", "e", "t">>

IsDigits(str, from, to) ==
    /\ from <= to
    /\ \A i \in from..to : str[i] \in Digits

\* re.search(r"\.\d+$", name)
HasUnitSuffix(name) ==
    \E p \in 1..Len(name) :
        name[p] = "." /\ IsDigits(name, p + 1, Len(name))

\* name.split(".")[1]: the text between the first and the second dot.
SecondField(name) ==
    LET dots == {i \in 1..Len(name) : name[i] = "."}
        first == CHOOSE i \in dots : \A j \in dots : i <= j
        rest == {i \in dots : i > first}
        stop == IF rest = {} THEN Len(name) + 1
                ELSE CHOOSE i \in rest : \A j \in rest : i <= j
    IN SubSeq(name, first + 1, stop - 1)

\* A match of (ethernet\d/\d{1,3})\.\d{1,4} starting at p whose group 1 has
\* n port digits.
UnitMatchAt(name, p, n) ==
    /\ p + 9 + n + 2 <= Len(name)
    /\ SubSeq(name, p, p + 7) = Ethernet
    /\ name[p + 8] \in Digits
    /\ name[p + 9] = "/"
    /\ IsDigits(name, p + 10, p + 9 + n)
    /\ name[p + 10 + n] = "."
    /\ name[p + 11 + n] \in Digits

\* re.search(r"(ethernet\d/\d{1,3})\.\d{1,4}", name): <<group(1)>> of the
\* leftmost match, <<>> when there is none.
UnitMatch(name) ==
    LET starts == {p \in 1..Len(name) :
                      \E n \in 1..3 : UnitMatchAt(name, p, n)}
    IN IF starts = {} THEN <<>>
       ELSE LET p == CHOOSE q \in starts : \A r \in starts : q <= r
                n == CHOOSE m \in 1..3 : UnitMatchAt(name, p, m)
            IN <<SubSeq(name, p, p + 9 + n)>>

\* Python truth value of a field that is None or a string
Truthy(v) == v # None /\ v # ""

\* An xpath under XPATH_INTERFACES
InterfaceXpath(type, kind, parent, mode, name) ==
    [type |-> type, kind |-> kind, parent |-> parent, mode |-> mode,
     name |-> name]

\* Interface._xpath, lines 194-221: the xpath, or the error raised.
\* kind "unit" is .../<type>/entry[@name=parent]/<mode>/units/entry[@name=name],
\* kind "top" is .../<type>/entry[@name=name],
\* kind "vlan" is .../vlan/units/entry[@name=name].
_xpath(self) ==
    IF self.type = "ethernet"
    THEN IF self.parent # <<>>
         THEN [err |-> None,
               xpath |-> InterfaceXpath(self.type, "unit", self.parent[1].name,
                                        self.parent[1].mode, self.name)]
         ELSE IF UnitMatch(self.name) # <<>>
         THEN [err |-> None,
               xpath |-> InterfaceXpath(self.type, "unit",
                                        UnitMatch(self.name)[1],
                                        self.mode, self.name)]
         ELSE [err |-> None,
               xpath |-> InterfaceXpath(self.type, "top", None, None,
                                        self.name)]
    ELSE IF self.type = "vlan"
    THEN [err |-> None,
          xpath |-> InterfaceXpath(self.type, "vlan", None, None, self.name)]
    ELSE [err |-> "PanDeviceError", xpath |-> None]

\* A remote configuration call: pan_device.xapi.<op> on the interface entity,
\* on a zone's member list or on the virtual router's member list.
Call(op, what, zone, name) ==
    [op |-> op, what |-> what, zone |-> zone, name |-> name, xpath |-> None]

\* xapi.edit(xpath, ...) / xapi.delete(xpath) on the interface entity, with
\* the xpath self._xpath() answered (lines 161-162, 191-192).
EntityCall(op, self) ==
    [Call(op, "interface", None, self.name) EXCEPT !.xpath = _xpath(self).xpath]

\* Interface.apply, lines 161-173: the calls in the order they are made.
ApplyCalls(self) ==
    <<EntityCall("edit", self)>>
    \o (IF Truthy(self.zone)
        THEN <<Call("set", "zone-member", self.zone, self.name)>> ELSE <<>>)
    \o (IF Truthy(self.router)
        THEN <<Call("set", "vrouter-member", None, self.name)>> ELSE <<>>)

\* Interface.delete, lines 179-189: the calls made before self._xpath().
DeleteMemberCalls(self) ==
    (IF Truthy(self.router)
     THEN <<Call("delete", "vrouter-member", None, self.name)>> ELSE <<>>)
    \o (IF Truthy(self.zone)
        THEN <<Call("delete", "zone-member", self.zone, self.name)>> ELSE <<>>)

\* delete() removing the interface entity before its memberships.
DeleteCalls_EntityFirst(self) ==
    (IF _xpath(self).err = None
     THEN <<EntityCall("delete", self)>> ELSE <<>>)
    \o DeleteMemberCalls(self)

\* Interface.delete, lines 179-192: the calls in the order they are made;
\* the last one is not reached when _xpath raises.
DeleteCalls(self) ==
    DeleteMemberCalls(self)
    \o (IF _xpath(self).err = None
        THEN <<EntityCall("delete", self)>> ELSE <<>>)

\* The zone setter, lines 138-148.
ZoneCalls(self, old_zone) ==
    (IF old_zone # None
     THEN <<Call("delete", "zone-member", old_zone, self.name)>> ELSE <<>>)
    \o (IF self.zone # None
        THEN <<Call("set", "zone-member", self.zone, self.name)>> ELSE <<>>)

\* The calls of operation n that reach the device when the f-th of them
\* fails (f = Len(planned) + 1: none fails): the calls before it succeed, the
\* failing one raises and the rest are not made.
Issued(planned, f, n, handler) ==
    [i \in 1..(IF f <= Len(planned) THEN f ELSE Len(planned)) |->
        [call |-> planned[i], ok |-> i < f, n |-> n, handler |-> handler]]

RaisedBy(planned, f, otherwise) ==
    IF f <= Len(planned) THEN "PanXapiError" ELSE otherwise

\* The constructor's assignments up to self.subnets = subnets, lines 63-75.
NewInterface(name, type, tag, zone, router, pan_device, apply_changes, parent) ==
    [name |-> name, type |-> type, mode |-> "layer3", tag |-> tag,
     zone |-> zone, router |-> router, parent |-> parent,
     apply_changes |-> apply_changes, pan_device |-> pan_device,
     subnets |-> <<>>]

\* Lines 77-80: the tag is appended to a name without a unit suffix, or read
\* from the name's unit suffix.
Renamed(self) ==
    IF self.tag # None /\ ~HasUnitSuffix(self.name)
    THEN [self EXCEPT !.name = self.name \o <<".">> \o self.tag]
    ELSE IF self.tag = None /\ HasUnitSuffix(self.name)
    THEN [self EXCEPT !.tag = SecondField(self.name)]
    ELSE self

\* apply() as an operation on the object `self`, started as operation n.
ApplyBody(self, n, handler) ==
    IF ~self.pan_device
    THEN /\ UNCHANGED <<xapiLog, config_changed>>
         /\ ifcErr' = None
    ELSE /\ config_changed' = TRUE
         /\ IF _xpath(self).err # None
            THEN /\ UNCHANGED xapiLog
                 /\ ifcErr' = _xpath(self).err
            ELSE \E f \in 1..(Len(ApplyCalls(self)) + 1) :
                    /\ xapiLog' = xapiLog
                          \o Issued(ApplyCalls(self), f, n, handler)
                    /\ ifcErr' = RaisedBy(ApplyCalls(self), f, None)

\* Interface(...): __init__, lines 63-80. The subnets setter applies the
\* interface when apply_changes is set; an error leaves no object. A
\* behaviour follows one Interface: the constructor is its first operation.
Construct(name, type, tag, zone, router, pan_device, apply_changes, parent) ==
    /\ ifcOps = 0
    /\ ifcOps < MaxOps
    /\ ifcOps' = ifcOps + 1
    /\ LET self == NewInterface(name, type, tag, zone, router, pan_device,
                                apply_changes, parent)
       IN /\ IF apply_changes
             THEN ApplyBody(self, ifcOps + 1, "apply")
             ELSE /\ UNCHANGED <<xapiLog, config_changed>>
                  /\ ifcErr' = None
          /\ iface' = IF ifcErr' = None THEN <<Renamed(self)>> ELSE <<>>
    /\ UNCHANGED <<refreshVars, commitVars>>

\* Interface.apply, lines 156-173.
Apply ==
    /\ iface # <<>>
    /\ ifcOps < MaxOps
    /\ ifcOps' = ifcOps + 1
    /\ ApplyBody(iface[1], ifcOps + 1, "apply")
    /\ UNCHANGED <<iface, refreshVars, commitVars>>

\* Interface.delete, lines 175-192.
Delete ==
    /\ iface # <<>>
    /\ ifcOps < MaxOps
    /\ ifcOps' = ifcOps + 1
    /\ IF ~iface[1].pan_device
       THEN /\ UNCHANGED <<xapiLog, config_changed>>
            /\ ifcErr' = None
       ELSE /\ config_changed' = TRUE
            /\ \E f \in 1..(Len(DeleteCalls(iface[1])) + 1) :
                  /\ xapiLog' = xapiLog
                        \o Issued(DeleteCalls(iface[1]), f, ifcOps + 1, "delete")
                  /\ ifcErr' = RaisedBy(DeleteCalls(iface[1]), f,
                                        _xpath(iface[1]).err)
    /\ UNCHANGED <<iface, refreshVars, commitVars>>

\* interface.zone = value, lines 131-148. Without a pan_device the first
\* remote call raises AttributeError.
SetZone(value) ==
    /\ iface # <<>>
    /\ ifcOps < MaxOps
    /\ ifcOps' = ifcOps + 1
    /\ LET self == [iface[1] EXCEPT !.zone = value]
           planned == IF iface[1].zone = value \/ ~self.apply_changes
                      THEN <<>>
                      ELSE ZoneCalls(self, iface[1].zone)
       IN /\ iface' = <<self>>
          /\ IF planned # <<>> /\ ~self.pan_device
             THEN /\ UNCHANGED xapiLog
                  /\ ifcErr' = "AttributeError"
             ELSE \E f \in 1..(Len(planned) + 1) :
                     /\ xapiLog' = xapiLog
                           \o Issued(planned, f, ifcOps + 1, "zone")
                     /\ ifcErr' = RaisedBy(planned, f, None)
    /\ UNCHANGED <<config_changed, refreshVars, commitVars>>

\* interface.subnets = value, lines 113-122.
SetSubnets(value) ==
    /\ iface # <<>>
    /\ ifcOps < MaxOps
    /\ ifcOps' = ifcOps + 1
    /\ LET self == [iface[1] EXCEPT !.subnets = value]
       IN /\ iface' = <<self>>
          /\ IF self.apply_changes
             THEN ApplyBody(self, ifcOps + 1, "apply")
             ELSE /\ UNCHANGED <<xapiLog, config_changed>>
                  /\ ifcErr' = None
    /\ UNCHANGED <<refreshVars, commitVars>>

Names ==
    {Ethernet \o <<"1", "/", "1">>,
     Ethernet \o <<"1", "/", "1", ".", "5">>,
     Ethernet \o <<"1", "2", "/", "1", ".", "5">>,
     <<"v", "l", "a", "n", ".", "7">>}
Types == {"ethernet", "vlan", "tunnel"}
Tags == {None, <<"5">>}
Zones == {None, "trust", "untrust"}
Routers == {None, "default"}
Parents == {<<>>, <<[name |-> Ethernet \o <<"1", "/", "2">>, mode |-> "layer2"]>>}
SubnetLists == {<<"10.0.0.1/24">>}

InitIface ==
    /\ devicesAll = <<>>
    /\ dgConfig = <<>>
    /\ dgOp = <<>>
    /\ tree = <<>>
    /\ lastArgs = None
    /\ result = NoResult
    /\ calls = 0
    /\ commits = <<>>
    /\ lastCommit = None
    /\ iface = <<>>
    /\ xapiLog = <<>>
    /\ config_changed = FALSE
    /\ ifcOps = 0
    /\ ifcErr = None

\* The constructor is called with every combination of name, type, zone,
\* router, pan_device and apply_changes for an untagged interface without
\* parent, and with every name, tag and parent for a routed ethernet
\* interface in a zone.
NextIface ==
    \/ \E name \in Names, type \in Types, zone \in Zones \ {"untrust"},
          router \in Routers, pan_device \in BOOLEAN, apply_changes \in BOOLEAN :
          Construct(name, type, None, zone, router, pan_device, apply_changes,
                    <<>>)
    \/ \E name \in Names, tag \in Tags, parent \in Parents,
          apply_changes \in BOOLEAN :
          Construct(name, "ethernet", tag, "trust", "default", TRUE,
                    apply_changes, parent)
    \/ Apply
    \/ Delete
    \/ \E value \in Zones : SetZone(value)
    \/ \E value \in SubnetLists : SetSubnets(value)

SpecIface == InitIface /\ [][NextIface]_vars

\* ---------------------------------------------------------------- interface names
\* The string of n copies of the character c
Rep(c, n) == [i \in 1..n |-> c]

\* Names ethernet<slot>/<port> and ethernet<slot>/<port>.<unit> with slot,
\* port and unit numbers of every length up to the bounds, and the same
\* between other characters.
XpathNames ==
    {pre \o Ethernet \o Rep("1", s) \o <<"/">> \o Rep("2", p)
         \o (IF u = 0 THEN <<>> ELSE <<".">> \o Rep("3", u)) \o suf :
        s \in 1..MaxSlotDigits, p \in 1..MaxPortDigits, u \in 0..MaxUnitDigits,
        pre \in {<<>>, <<"a">>}, suf \in {<<>>, <<"x">>}}

\* Interface(name, type="ethernet", pan_device=..., apply_changes=...) for the
\* generated names, then apply() and delete().
NextXpath ==
    \/ \E name \in XpathNames, apply_changes \in BOOLEAN :
          Construct(name, "ethernet", None, None, None, TRUE, apply_changes,
                    <<>>)
    \/ Apply
    \/ Delete

SpecXpath == InitIface /\ [][NextXpath]_vars

\* ---------------------------------------------------------------- one interface on a device
\* The state after Interface(name, type, zone=..., router=..., pan_device=dev,
\* apply_changes=...) returned: with apply_changes the constructor's apply()
\* (line 122) has made its calls, all of which succeeded.
Constructed(self) ==
    /\ iface = <<Renamed(self)>>
    /\ xapiLog = IF self.apply_changes
                 THEN Issued(ApplyCalls(self), Len(ApplyCalls(self)) + 1, 0,
                             "apply")
                 ELSE <<>>
    /\ config_changed = self.apply_changes
    /\ ifcOps = 0
    /\ ifcErr = None

InitZone ==
    /\ devicesAll = <<>>
    /\ dgConfig = <<>>
    /\ dgOp = <<>>
    /\ tree = <<>>
    /\ lastArgs = None
    /\ result = NoResult
    /\ calls = 0
    /\ commits = <<>>
    /\ lastCommit = None
    /\ \E type \in {"ethernet", "vlan"}, zone \in Zones, router \in Routers,
          apply_changes \in BOOLEAN :
          Constructed(NewInterface(Ethernet \o <<"1", "/", "1">>, type, None,
                                   zone, router, TRUE, apply_changes, <<>>))

\* Zone assignments, apply() and delete() on that interface.
NextZone ==
    \/ \E value \in Zones : SetZone(value)
    \/ Apply
    \/ Delete

SpecZone == InitZone /\ [][NextZone]_vars

\* ================================================================ claims
\* What the last call read and returned, for the formulas below.
Called == calls > 0
OpView == show_devices(devicesAll, lastArgs.only_connected)
Succeeded == Called /\ result.err = None
Failed == Called /\ result.err # None

\* The (serial, vsys) pairs group g declares in the configuration view.
DeclaredPairs(g) == PairsOf(dgConfig[g])

\* The device records the call built from the operational view.
BuiltRecords ==
    FirewallInstances(
        FilteredDevices(lastArgs.devices, OpView, lastArgs.only_connected).xml,
        lastArgs.expand_vsys)
Built(s, v) ==
    \E i \in 1..Len(BuiltRecords) :
        BuiltRecords[i].name = s /\ BuiltRecords[i].vsys = v

\* The returned device-group of configuration group g, and the returned
\* ungrouped devices.
ResultGroups == SelectSeq(result.value, LAMBDA n : n.kind = "DeviceGroup")
Ungrouped == SelectSeq(result.value, LAMBDA n : n.kind = "Firewall")
ChildrenOf(g) == {ResultGroups[g].children[i] :
                    i \in 1..Len(ResultGroups[g].children)}
IsPlaceholder(n) == n.kind = "Firewall" /\ n.connected = None

\* The caller asked for (s, v): no devices argument, or a requested device
\* with that serial that is a plain serial string, names no specific vsys,
\* or names v.
RequestedPair(s, v) ==
    \/ lastArgs.devices = <<>>
    \/ \E i \in 1..Len(lastArgs.devices) :
          /\ lastArgs.devices[i].serial = s
          /\ \/ lastArgs.devices[i].kind = "str"
             \/ lastArgs.devices[i].vsys \in {None, "shared", v}

\* Requested device i is not in the operational view the call read.
SerialMissing(i) ==
    \A j \in 1..Len(OpView) : OpView[j].serial # lastArgs.devices[i].serial
VsysMissing(i) ==
    /\ lastArgs.devices[i].kind = "fw"
    /\ lastArgs.devices[i].vsys \notin {None, "shared"}
    /\ \E j \in 1..Len(OpView) :
          /\ OpView[j].serial = lastArgs.devices[i].serial
          /\ \A k \in 1..Len(OpView[j].vsys) :
                OpView[j].vsys[k].name # lastArgs.devices[i].vsys
SomeRequestedMissing ==
    \E i \in 1..Len(lastArgs.devices) : SerialMissing(i) \/ VsysMissing(i)

\* C1 as stated: with include_device_groups and not only_connected, the call
\* does not raise and every declared membership without a matching built
\* record has a placeholder (serial and vsys only) in its group.
C1_Original ==
    (Called /\ lastArgs.include_device_groups /\ ~lastArgs.only_connected) =>
        /\ result.err = None
        /\ \A g \in 1..Len(dgConfig) : \A p \in DeclaredPairs(g) :
              ~Built(p[1], p[2]) => Firewall(p[1], p[2]) \in ChildrenOf(g)

\* C1 amended: the same for every declared membership the devices argument
\* asks for (all of them when devices is empty); the call raises only when a
\* requested device is itself missing from the operational view.
C1_Placeholder ==
    (Called /\ lastArgs.include_device_groups /\ ~lastArgs.only_connected) =>
        /\ result.err # None => SomeRequestedMissing
        /\ result.err = None =>
              \A g \in 1..Len(dgConfig) : \A p \in DeclaredPairs(g) :
                 (RequestedPair(p[1], p[2]) /\ ~Built(p[1], p[2]))
                    => Firewall(p[1], p[2]) \in ChildrenOf(g)

C1_Witness ==
    /\ Succeeded /\ lastArgs.include_device_groups /\ ~lastArgs.only_connected
    /\ \E g \in 1..Len(dgConfig) : \E p \in DeclaredPairs(g) :
          /\ RequestedPair(p[1], p[2]) /\ ~Built(p[1], p[2])
          /\ \A j \in 1..Len(devicesAll) : devicesAll[j].serial # p[1]
          /\ Firewall(p[1], p[2]) \in ChildrenOf(g)

\* C2 as stated: with include_device_groups and only_connected, a declared
\* membership whose serial/vsys is absent from the operational view makes
\* the call fail.
AbsentFromOpView(s, v) ==
    \A j \in 1..Len(OpView) :
        OpView[j].serial = s =>
            \A k \in 1..Len(OpView[j].vsys) : OpView[j].vsys[k].name # v
C2_Original ==
    (Called /\ lastArgs.include_device_groups /\ lastArgs.only_connected
       /\ \E g \in 1..Len(dgConfig) : \E p \in DeclaredPairs(g) :
             AbsentFromOpView(p[1], p[2]))
        => result.err # None

\* C2 amended: with include_device_groups and only_connected the absence is
\* not an error: the call raises only when a requested device is itself
\* missing, and otherwise returns groups without any child for a membership
\* that has no built record (no placeholder is made).
C2_Omitted ==
    (Called /\ lastArgs.include_device_groups /\ lastArgs.only_connected) =>
        /\ result.err # None => SomeRequestedMissing
        /\ result.err = None =>
              \A g \in 1..Len(dgConfig) : \A n \in ChildrenOf(g) :
                 /\ ~IsPlaceholder(n)
                 /\ Built(n.name, n.vsys)

C2_Witness ==
    /\ Succeeded /\ lastArgs.include_device_groups /\ lastArgs.only_connected
    /\ \E g \in 1..Len(dgConfig) : \E p \in DeclaredPairs(g) :
          /\ AbsentFromOpView(p[1], p[2])
          /\ RequestedPair(p[1], p[2])
          /\ \A n \in ChildrenOf(g) : <<n.name, n.vsys>> # p

\* C3 as stated: a non-empty devices list with a serial that has no entry in
\* the operational view fails with PanNotConnectedOnPanorama under
\* only_connected and with PanNotAttachedOnPanorama otherwise.
C3_Original ==
    (Called /\ \E i \in 1..Len(lastArgs.devices) : SerialMissing(i)) =>
        result.err = IF lastArgs.only_connected
                     THEN "PanNotConnectedOnPanorama"
                     ELSE "PanNotAttachedOnPanorama"

\* C4 as stated: a requested specific vsys missing from a serial the
\* operational view has fails like a missing serial does.
C4_Original ==
    (/\ Called
     /\ \E i \in 1..Len(lastArgs.devices) : VsysMissing(i)
     /\ \A i \in 1..Len(lastArgs.devices) : ~SerialMissing(i)) =>
        result.err = IF lastArgs.only_connected
                     THEN "PanNotConnectedOnPanorama"
                     ELSE "PanNotAttachedOnPanorama"

\* The filtered operational view the call expanded.
FilteredXml ==
    FilteredDevices(lastArgs.devices, OpView, lastArgs.only_connected).xml

RECURSIVE VsysCount(_, _)
VsysCount(xml, n) ==
    IF n = 0 THEN 0 ELSE VsysCount(xml, n - 1) + Len(xml[n].vsys)

\* C5 as stated: with expand_vsys every entry of the filtered view declaring
\* N vsys is replaced by N records in order, each with the entry's serial,
\* the k-th with the k-th vsys name as vsys id and its display name as vsys
\* name, the vsys ids of one entry pairwise distinct. (Without device-groups
\* the records are the returned list.)
C5_Original ==
    (Succeeded /\ lastArgs.expand_vsys /\ ~lastArgs.include_device_groups) =>
        /\ Len(result.value) = VsysCount(FilteredXml, Len(FilteredXml))
        /\ \A i \in 1..Len(FilteredXml) : \A k \in 1..Len(FilteredXml[i].vsys) :
              LET r == result.value[VsysCount(FilteredXml, i - 1) + k]
              IN /\ r.kind = "Firewall"
                 /\ r.name = FilteredXml[i].serial
                 /\ r.vsys = FilteredXml[i].vsys[k].name
                 /\ r.vsys_name = FilteredXml[i].vsys[k].display
                 /\ \A l \in 1..Len(FilteredXml[i].vsys) :
                       l # k => result.value[VsysCount(FilteredXml, i - 1) + l].vsys
                                  # r.vsys

\* The sync status "show devicegroups" reports for (s, v) under group g.
OpStatus(g, s, v) ==
    LET ds == SelectSeq(dgOp[g].devices, LAMBDA e : e.serial = s)
    IN IF ds = <<>> THEN None
       ELSE IF ds[1].status # None THEN ds[1].status
       ELSE LET vs == SelectSeq(ds[1].vsys, LAMBDA e : e.name = v)
            IN IF vs = <<>> THEN None ELSE vs[1].status

\* Where the built record (s, v) is in the result.
GroupPlaces(s, v) ==
    {<<g, j>> \in (1..Len(ResultGroups)) \X (1..4) :
        /\ j <= Len(ResultGroups[g].children)
        /\ ResultGroups[g].children[j].name = s
        /\ ResultGroups[g].children[j].vsys = v
        /\ ~IsPlaceholder(ResultGroups[g].children[j])}
RootPlaces(s, v) ==
    {j \in 1..Len(Ungrouped) : Ungrouped[j].name = s /\ Ungrouped[j].vsys = v}

BuiltCount(s, v) ==
    Cardinality({i \in 1..Len(BuiltRecords) :
                    BuiltRecords[i].name = s /\ BuiltRecords[i].vsys = v})

\* C6 as stated: with expand_vsys and include_device_groups every built
\* record is in exactly one place: in a group that declares its (serial,
\* vsys), with that group's sync status for it, or else ungrouped. (A pair
\* the filtered view holds more than once counts once per record.)
C6_Original ==
    (Succeeded /\ lastArgs.expand_vsys /\ lastArgs.include_device_groups) =>
        \A i \in 1..Len(BuiltRecords) :
            LET s == BuiltRecords[i].name
                v == BuiltRecords[i].vsys
            IN /\ Cardinality(GroupPlaces(s, v)) + Cardinality(RootPlaces(s, v))
                     = BuiltCount(s, v)
               /\ \A p \in GroupPlaces(s, v) :
                     /\ <<s, v>> \in DeclaredPairs(p[1])
                     /\ ResultGroups[p[1]].children[p[2]].synced
                           = OpStatus(p[1], s, v)

\* C7: a call with add and include_device_groups replaces the Firewall
\* children of every existing namesake group by the reconciled ones and keeps
\* its other children, adds the groups without namesake to the root, and
\* makes the root's Firewall children the reconciled ungrouped devices.
IsGroup(n, name) == n.kind = "DeviceGroup" /\ n.name = name
FirewallsOf(children) == SelectSeq(children, LAMBDA c : c.kind = "Firewall")
OthersOf(children) == SelectSeq(children, LAMBDA c : c.kind # "Firewall")
GroupNamed(children, name) ==
    children[CHOOSE i \in 1..Len(children) :
                /\ IsGroup(children[i], name)
                /\ \A j \in 1..(i - 1) : ~IsGroup(children[j], name)]
AddPost(before, after, value) ==
    LET dgs == SelectSeq(value, LAMBDA n : n.kind = "DeviceGroup")
    IN /\ \A k \in 1..Len(dgs) :
            IF \E i \in 1..Len(before) : IsGroup(before[i], dgs[k].name)
            THEN /\ \E i \in 1..Len(after) : IsGroup(after[i], dgs[k].name)
                 /\ FirewallsOf(GroupNamed(after, dgs[k].name).children)
                       = dgs[k].children
                 /\ OthersOf(GroupNamed(after, dgs[k].name).children)
                       = OthersOf(GroupNamed(before, dgs[k].name).children)
            ELSE \E i \in 1..Len(after) : after[i] = dgs[k]
       /\ FirewallsOf(after) = FirewallsOf(value)
C8_Idempotent ==
    [][calls >= 1 => /\ result' = result
                     /\ lastArgs.add => tree' = tree]_vars

C8_Witness ==
    /\ calls = 2 /\ Succeeded /\ lastArgs.add /\ lastArgs.include_device_groups
    /\ tree[1] = Other("admin")
    /\ Len(ResultGroups) = 2
    /\ ResultGroups[1].children # <<>>
    /\ Ungrouped # <<>>

\* C9 as stated: commit_all with cmd=None hands on one commit-all request
\* that names the device-group when one is given and carries one devices
\* entry per serial whenever serials is not empty.
C9_Original ==
    (commits # <<>> /\ lastCommit.cmd = <<>>) =>
        LET c == commits[Len(commits)].cmd
        IN /\ commits[Len(commits)].commit_all
           /\ c.tag = "commit-all"
           /\ lastCommit.devicegroup # None =>
                 /\ Len(c.device_group) = 1
                 /\ c.device_group[1].name = lastCommit.devicegroup
           /\ lastCommit.serials # <<>> =>
                 /\ Len(c.device_group) = 1
                 /\ c.device_group[1].hasDevices
                 /\ c.device_group[1].devices = lastCommit.serials

\* ---------------------------------------------------------------- C10
IsMembership(e) == e.call.what \in {"zone-member", "vrouter-member"}
IsEntity(e) == e.call.what = "interface"
SameOperation(i, j) ==
    /\ xapiLog[i].n = xapiLog[j].n
    /\ xapiLog[i].handler = xapiLog[j].handler

\* The calls of operation n, in the order issued
CallsOf(n, handler) ==
    SelectSeq(xapiLog, LAMBDA e : e.n = n /\ e.handler = handler)

\* C10: in every delete() each membership removal (virtual-router member,
\* zone member) is issued before the delete of the interface entity, which
\* is the last call and is reached only after the removals succeeded; in
\* every apply() the edit of the interface entity is issued before each
\* membership addition (zone member, virtual-router member), which is made
\* only after the edit succeeded.
C10_Ordering ==
    \A i \in 1..Len(xapiLog) : \A j \in 1..Len(xapiLog) :
        SameOperation(i, j) =>
            /\ (/\ xapiLog[i].handler = "delete"
                /\ IsMembership(xapiLog[i])
                /\ IsEntity(xapiLog[j])) =>
                   /\ i < j
                   /\ xapiLog[i].call.op = "delete"
                   /\ xapiLog[i].ok
            /\ (/\ xapiLog[i].handler = "apply"
                /\ IsEntity(xapiLog[i])
                /\ IsMembership(xapiLog[j])) =>
                   /\ i < j
                   /\ xapiLog[i].call.op = "edit"
                   /\ xapiLog[j].call.op = "set"
                   /\ xapiLog[i].ok

\* An interface in a zone and on the virtual router has been applied and then
\* deleted, each with its three calls.
C10_Witness ==
    \E n \in 1..MaxOps : \E m \in 1..MaxOps :
        /\ n < m
        /\ Len(CallsOf(n, "apply")) = 3
        /\ Len(CallsOf(m, "delete")) = 3
        /\ CallsOf(m, "delete")[3].ok
        /\ CallsOf(n, "apply")[3].ok

\* ---------------------------------------------------------------- C11
\* The name has the form ethernet<slot>/<port>.<unit>, each a decimal number.
IsUnitName(name) ==
    /\ Len(name) >= 13
    /\ SubSeq(name, 1, 8) = Ethernet
    /\ \E a \in 9..(Len(name) - 4) : \E b \in (a + 2)..(Len(name) - 2) :
          /\ IsDigits(name, 9, a)
          /\ name[a + 1] = "/"
          /\ IsDigits(name, a + 2, b)
          /\ name[b + 1] = "."
          /\ IsDigits(name, b + 2, Len(name))

\* ethernet<slot>/<port> of a name of that form
PhysicalName(name) ==
    SubSeq(name, 1, (CHOOSE i \in 1..Len(name) : name[i] = ".") - 1)

\* The xpath C11 gives a parentless ethernet interface of the given name
ExpectedXpath(name, mode) ==
    IF IsUnitName(name)
    THEN InterfaceXpath("ethernet", "unit", PhysicalName(name), mode, name)
    ELSE InterfaceXpath("ethernet", "top", None, None, name)

\* C11 as stated: every edit or delete of a parentless ethernet interface
\* (the only interfaces SpecXpath makes) addresses the units path under
\* ethernet<slot>/<port> exactly when the name has the form
\* ethernet<slot>/<port>.<unit>, and the top-level path otherwise.
C11_Original ==
    \A i \in 1..Len(xapiLog) :
        IsEntity(xapiLog[i]) =>
            xapiLog[i].call.xpath = ExpectedXpath(xapiLog[i].call.name, "layer3")

\* ---------------------------------------------------------------- C12
\* C12 as stated: apply() and delete() of an interface with a pan_device
\* whose type is neither ethernet nor vlan raise PanDeviceError and issue no
\* remote configuration call.
C12_Original ==
    [][((Apply \/ Delete)
        /\ iface[1].pan_device
        /\ iface[1].type \notin {"ethernet", "vlan"})
       => (ifcErr' = "PanDeviceError" /\ xapiLog' = xapiLog)]_vars

\* ---------------------------------------------------------------- C13
\* Every device record of the result: the ungrouped ones and the children of
\* the returned device-groups.
ResultRecords ==
    Ungrouped \o Flatten([g \in 1..Len(ResultGroups) |-> ResultGroups[g].children])

\* The devices argument is a non-empty list of serial strings, each with an
\* entry in the operational view the call read.
SerialStringsPresent ==
    /\ Called
    /\ lastArgs.devices # <<>>
    /\ \A i \in 1..Len(lastArgs.devices) :
          lastArgs.devices[i].kind = "str" /\ ~SerialMissing(i)

\* C13 as stated: for a devices list of serial strings that are all in the
\* operational view, the call succeeds, the filtered device list has an
\* entry for every requested serial, and the result holds for every
\* requested serial a record built from its operational data.
C13_Original ==
    SerialStringsPresent =>
        /\ result.err = None
        /\ \A i \in 1..Len(lastArgs.devices) :
              /\ \E j \in 1..Len(FilteredXml) :
                    FilteredXml[j].serial = lastArgs.devices[i].serial
              /\ \E j \in 1..Len(ResultRecords) :
                    /\ ResultRecords[j].name = lastArgs.devices[i].serial
                    /\ ~IsPlaceholder(ResultRecords[j])

\* ---------------------------------------------------------------- C14
\* The devices argument is a non-empty list of Firewall objects, each naming
\* a specific vsys.
SpecificVsysRequested ==
    /\ Called
    /\ lastArgs.devices # <<>>
    /\ \A i \in 1..Len(lastArgs.devices) :
          /\ lastArgs.devices[i].kind = "fw"
          /\ SpecificVsys(lastArgs.devices[i].vsys)

\* Some requested Firewall has this serial and this vsys.
RequestedExactly(s, v) ==
    \E i \in 1..Len(lastArgs.devices) :
        lastArgs.devices[i].serial = s /\ lastArgs.devices[i].vsys = v

\* C14 as stated: when every requested device is a Firewall naming a
\* specific vsys, every device record of the result (grouped, ungrouped or
\* placeholder) has a (serial, vsys) pair that was requested. Stated for
\* expand_vsys, where the vsys of a built record is read from the
\* operational view.
C14_Original ==
    (SpecificVsysRequested /\ Succeeded /\ lastArgs.expand_vsys) =>
        \A j \in 1..Len(ResultRecords) :
            RequestedExactly(ResultRecords[j].name, ResultRecords[j].vsys)

\* ---------------------------------------------------------------- C15
AllCallsSucceeded == \A i \in 1..Len(xapiLog) : xapiLog[i].ok

\* The last remote call is delete()'s delete of the interface entity.
DeletedLast ==
    /\ xapiLog # <<>>
    /\ xapiLog[Len(xapiLog)].handler = "delete"
    /\ IsEntity(xapiLog[Len(xapiLog)])

\* delete() has not been called.
NotDeleted == \A i \in 1..Len(xapiLog) : xapiLog[i].handler # "delete"

\* The interface of the given name is on zone's remote member list: a member
\* set that succeeded put it there and no later member delete that succeeded
\* took it off.
RemoteZoneMember(zone, name) ==
    LET done(k, op) ==
            /\ xapiLog[k].ok
            /\ xapiLog[k].call.what = "zone-member"
            /\ xapiLog[k].call.op = op
            /\ xapiLog[k].call.zone = zone
            /\ xapiLog[k].call.name = name
    IN \E i \in 1..Len(xapiLog) :
          /\ done(i, "set")
          /\ \A j \in (i + 1)..Len(xapiLog) : ~done(j, "delete")

RemoteZonesOf(name) == {z \in Zones \ {None} : RemoteZoneMember(z, name)}

\* C15 as stated: with every remote call succeeding, once delete() has run
\* after any zone assignments and apply() calls no zone's remote member list
\* holds the interface, and before delete() the interface is on the member
\* list of at most one zone.
C15_Original ==
    AllCallsSucceeded =>
        /\ DeletedLast => RemoteZonesOf(iface[1].name) = {}
        /\ NotDeleted => Cardinality(RemoteZonesOf(iface[1].name)) <= 1

====
